---- MODULE Spec2Model ----
(***************************************************************************)
(* The desktop-entry catalog of gell-launcher (src/dmenu.py): the Loader   *)
(* get_desktop_files, the DesktopEntry parser it uses, and the catalog     *)
(* cache get_desktop_files_cached / clear_cache over the file CACHE_FILE.  *)
(*                                                                         *)
(* Strings are sequences of code points (<<65>> is "A", <<97>> is "a"), so *)
(* that str.lower(), string comparison and the sort key are computed and   *)
(* not assumed.                                                            *)
(***************************************************************************)
EXTENDS Integers, Sequences, FiniteSets, TLC

VARIABLES
    fs,          \* the three application directories and their *.desktop files
    cache_file,  \* CACHE_FILE on disk: exists, st_mtime, content
    now,         \* datetime.now().timestamp(), in seconds
    op,          \* the call the last step completed: "scan", "get", "clear";
                 \* "none" after a step of the environment
    apps,        \* the list that call returned
    raised,      \* whether that call raised
    scanned,     \* whether that call invoked get_desktop_files
    pre,         \* cache_file as that call found it
    wfault,      \* where the write of that call failed ("none" when it did not)
    since_clear, \* whether clear_cache ran and no get_desktop_files_cached
                 \* since ("cleared"), or the call just completed is the first
                 \* one since ("first_get"); and the file clear_cache removed
    dumped,      \* the list the pickle.dump that wrote cache_file was given,
                 \* and the instant of that write
    query,       \* fuzzy_match: the query of the call
    text,        \* fuzzy_match: the candidate text of the call
    result,      \* fuzzy_match: the pair (matched, score) it returned
    self_apps,   \* AppLauncherPanel.apps
    filtered_apps, \* AppLauncherPanel.filtered_apps
    value,       \* the value on_input_changed was called with
    list_view,   \* the ListView #app-list: whether it is mounted, the labels of
                 \* its items, and the count in the border title of #Middle
    current_middle_panel_index, \* GellLauncher: the middle panel shown
    selection,   \* launch_selected_app: the index it was called with, what it
                 \* returned, and the label the list view showed at that row
    target,      \* the DesktopEntry launch() is called on
    popen,       \* whether launch() called subprocess.Popen, with what command,
                 \* and whether Popen raised
    procs,       \* two launcher processes on one CACHE_FILE: where each one
                 \* stands in get_desktop_files_cached or clear_cache, its
                 \* local variables, what it returned and whether it raised
    slots,       \* the data of CACHE_FILE as the processes write it, record
                 \* by record
    scans,       \* the lists the scans of the processes have returned
    weather      \* WeatherPanel: weather_data, last_fetch_time, is_fetching,
                 \* where each caller of update_weather stands in it, and
                 \* whether the last call of it to end raised

fuzzyvars == <<query, text, result>>

panelvars == <<self_apps, filtered_apps, value, list_view,
               current_middle_panel_index>>

launchvars == <<selection, target, popen>>

racevars == <<procs, slots, scans>>

\* the variables of the parts that have a specification of their own
uivars == <<fuzzyvars, panelvars, launchvars, racevars, weather>>

vars == <<fs, cache_file, now, op, apps, raised, scanned, pre, wfault,
          since_clear, dumped, uivars>>

(***************************** bounds **************************************)

\* most *.desktop files over the three directories, in a Loader scan
MaxFiles == 2

\* most *.desktop files installed while the cache is in use
MaxInstalled == 1

\* most entries in the catalog of the panel
MaxApps == 3

\* longest value typed in the search input, over the alphabet Letters
MaxValueLen == 2

\* longest Exec command launch() is called with, over the alphabet CmdChars
MaxCmdLen == 4

\* longest query and longest candidate text fuzzy_match is called with, over
\* the alphabet Letters
MaxQueryLen == 3

MaxTextLen == 4

(***************************** strings *************************************)

EmptyStr == <<>>

\* the capital and the small letters: A-Z, a-z, and the Greek Alpha-Omega,
\* alpha-omega (with the final sigma, 962)
Capital(c) == c \in 65..90 \/ c \in 913..937

Cased(c) == Capital(c) \/ c \in 97..122 \/ c \in 945..969

\* str.lower() on one character, whatever stands around it
LowerChar(c) == IF Capital(c) THEN c + 32 ELSE c

\* a capital sigma (931) at i becomes the final sigma when a cased letter
\* stands before it and none after it
FinalSigma(s, i) ==
    /\ s[i] = 931
    /\ i > 1 /\ Cased(s[i - 1])
    /\ ~(i < Len(s) /\ Cased(s[i + 1]))

\* str.lower()
Lower(s) ==
    [i \in 1..Len(s) |-> IF FinalSigma(s, i) THEN 962 ELSE LowerChar(s[i])]

\* Python's str <: lexicographic by code point, a proper prefix is smaller
StrLess(a, b) ==
    \E i \in 1..(Len(b)) :
        /\ \A j \in 1..(i - 1) : j <= Len(a) /\ a[j] = b[j]
        /\ \/ i = Len(a) + 1
           \/ i <= Len(a) /\ a[i] < b[i]

StrLessEq(a, b) == a = b \/ StrLess(a, b)

(************************ .desktop files on disk ***************************)

s_true    == <<116, 114, 117, 101>>        \* "true"
s_TRUE    == <<84, 82, 85, 69>>            \* "TRUE"
s_True    == <<84, 114, 117, 101>>         \* "True"
s_false   == <<102, 97, 108, 115, 101>>    \* "false"
s_Yes     == <<89, 101, 115>>              \* "Yes"
s_maybe   == <<109, 97, 121, 98, 101>>     \* "maybe"
s_A       == <<65>>                        \* "A"
s_a       == <<97>>                        \* "a"
s_B       == <<66>>                        \* "B"
s_cmd     == <<120>>                       \* "x"
s_icon    == <<105>>                       \* "i"

\* desktop_dirs with the system directory ahead of the user's
desktop_dirs_SystemFirst == <<2, 1, 3>>

\* the directories of desktop_dirs, by their position in the list:
\* 1 ~/.local/share/applications, 2 /usr/share/applications,
\* 3 /usr/local/share/applications
desktop_dirs == <<1, 2, 3>>

Dirs == {desktop_dirs[i] : i \in 1..Len(desktop_dirs)}

\* A *.desktop file's content, as ConfigParser sees it: whether config.read
\* accepts it, whether it has a [Desktop Entry] section, and that section's
\* options (a function from the keys present to their values).
Desktop(options) == [read_ok |-> TRUE, has_section |-> TRUE, entry |-> options]

NameExec(n) == ("Name" :> n) @@ ("Exec" :> s_cmd)

\* a file config.read raises on (no section header before the first option,
\* bytes that are not UTF-8)
Malformed == [read_ok |-> FALSE, has_section |-> FALSE, entry |-> NameExec(s_A)]

\* a well-formed INI file without a [Desktop Entry] section
NoSection == [read_ok |-> TRUE, has_section |-> FALSE, entry |-> NameExec(s_B)]

\* files that pass every test of the Loader
Launchable ==
    { Desktop(NameExec(s_A)),
      Desktop(NameExec(s_a)),
      Desktop(NameExec(s_B) @@ ("Icon" :> s_icon) @@ ("Terminal" :> s_True)),
      Desktop(NameExec(s_a) @@ ("NoDisplay" :> s_false)) }

\* files marked as not to be displayed
HiddenFiles ==
    { Desktop(NameExec(s_A) @@ ("NoDisplay" :> s_true)),
      Desktop(NameExec(s_B) @@ ("NoDisplay" :> s_TRUE)),
      Desktop(NameExec(s_A) @@ ("Hidden" :> s_True)),
      Desktop(NameExec(s_a) @@ ("Hidden" :> s_Yes)) }

\* files with a value getboolean rejects, or without Name or Exec
Defective ==
    { Desktop(NameExec(s_B) @@ ("NoDisplay" :> s_maybe)),
      Desktop(NameExec(s_A) @@ ("Terminal" :> s_maybe)),
      Desktop("Name" :> s_A),
      Desktop("Exec" :> s_cmd),
      Malformed,
      NoSection }

DesktopFiles == Launchable \cup HiddenFiles \cup Defective

\* the files installed while the cache is in use
Packages ==
    { Desktop(NameExec(s_A)),
      Desktop(NameExec(s_a)),
      Desktop(NameExec(s_B) @@ ("Icon" :> s_icon) @@ ("Terminal" :> s_True)),
      Desktop(NameExec(s_A) @@ ("Hidden" :> s_True)) }

\* a directory: whether it exists, and what glob("*.desktop") yields, in
\* glob's order; each file carries its path <<directory, file name>>
NoDir == [exists |-> FALSE, files |-> <<>>]

EmptyDir == [exists |-> TRUE, files |-> <<>>]

TotalFiles(f) == Len(f[1].files) + Len(f[2].files) + Len(f[3].files)

(************************** DesktopEntry ***********************************)

\* ConfigParser.BOOLEAN_STATES
TrueStrings == { <<49>>, <<121, 101, 115>>, s_true, <<111, 110>> }

FalseStrings == { <<48>>, <<110, 111>>, s_false, <<111, 102, 102>> }

\* entry.get(key, fallback)
get(entry, key, fallback) ==
    IF key \in DOMAIN entry THEN entry[key] ELSE fallback

\* entry.getboolean(key, fallback) raises ValueError on a value that is
\* present and is no boolean word
getboolean_raises(entry, key) ==
    /\ key \in DOMAIN entry
    /\ Lower(entry[key]) \notin (TrueStrings \cup FalseStrings)

\* getboolean comparing the value as written, without lowering it
getboolean_CaseSensitive(entry, key, fallback) ==
    IF key \in DOMAIN entry THEN entry[key] \in TrueStrings ELSE fallback

\* entry.getboolean(key, fallback), where it does not raise
getboolean(entry, key, fallback) ==
    IF key \in DOMAIN entry THEN Lower(entry[key]) \in TrueStrings ELSE fallback

\* DesktopEntry.__init__ before _parse
NewEntry(filepath) ==
    [filepath |-> filepath, name |-> EmptyStr, exec_cmd |-> EmptyStr,
     icon |-> EmptyStr, terminal |-> FALSE]

Returned(e) == [raised |-> FALSE, entry |-> e]

Raised(e) == [raised |-> TRUE, entry |-> e]

\* DesktopEntry(filepath): __init__ and _parse of the file at filepath
DesktopEntry(file) ==
    LET self == NewEntry(file.path)
        entry == file.entry
    IN  IF ~file.read_ok THEN Returned(self)
        ELSE IF ~file.has_section THEN Returned(self)
        ELSE IF getboolean_raises(entry, "NoDisplay") THEN Raised(self)
        ELSE IF getboolean(entry, "NoDisplay", FALSE) THEN Returned(self)
        ELSE IF getboolean_raises(entry, "Hidden") THEN Raised(self)
        ELSE IF getboolean(entry, "Hidden", FALSE) THEN Returned(self)
        ELSE IF getboolean_raises(entry, "Terminal")
             THEN Raised([self EXCEPT !.name = get(entry, "Name", EmptyStr),
                                      !.exec_cmd = get(entry, "Exec", EmptyStr),
                                      !.icon = get(entry, "Icon", EmptyStr)])
        ELSE Returned([self EXCEPT !.name = get(entry, "Name", EmptyStr),
                                   !.exec_cmd = get(entry, "Exec", EmptyStr),
                                   !.icon = get(entry, "Icon", EmptyStr),
                                   !.terminal = getboolean(entry, "Terminal", FALSE)])

(************************** the Loader *************************************)

\* the sort key without lower()
SortKey_CaseSensitive(x) == x.name

\* the sort key of apps.sort
SortKey(x) == Lower(x.name)

\* list.sort(key=...) is stable: x goes behind every element whose key is
\* not greater than its own
RECURSIVE InsertByKey(_, _)
InsertByKey(sorted, x) ==
    IF sorted = <<>> THEN <<x>>
    ELSE IF StrLess(SortKey(x), SortKey(sorted[1]))
         THEN <<x>> \o sorted
         ELSE <<sorted[1]>> \o InsertByKey(Tail(sorted), x)

RECURSIVE SortApps(_)
SortApps(list) ==
    IF list = <<>> THEN <<>>
    ELSE InsertByKey(SortApps(SubSeq(list, 1, Len(list) - 1)), list[Len(list)])

\* the state of the scan: apps, seen_names, and whether an exception left
\* the loops
ScanStart == [apps |-> <<>>, seen_names |-> {}, raised |-> FALSE]

\* the inner loop's body without the seen_names test
ScanFile_NoDedup(acc, file) ==
    LET r == DesktopEntry(file)
        entry == r.entry
    IN  IF r.raised THEN acc
        ELSE IF entry.name # EmptyStr /\ entry.exec_cmd # EmptyStr
             THEN [acc EXCEPT !.apps = Append(@, entry),
                              !.seen_names = @ \cup {entry.name}]
             ELSE acc

\* the inner loop's body without the exec_cmd test
ScanFile_NoExecTest(acc, file) ==
    LET r == DesktopEntry(file)
        entry == r.entry
    IN  IF r.raised THEN acc
        ELSE IF entry.name # EmptyStr /\ entry.name \notin acc.seen_names
             THEN [acc EXCEPT !.apps = Append(@, entry),
                              !.seen_names = @ \cup {entry.name}]
             ELSE acc

\* the inner loop's body without its try/except
ScanFile_NoTry(acc, file) ==
    LET r == DesktopEntry(file)
        entry == r.entry
    IN  IF r.raised THEN [acc EXCEPT !.raised = TRUE]
        ELSE IF /\ entry.name # EmptyStr
                /\ entry.exec_cmd # EmptyStr
                /\ entry.name \notin acc.seen_names
             THEN [acc EXCEPT !.apps = Append(@, entry),
                              !.seen_names = @ \cup {entry.name}]
             ELSE acc

\* the body of the inner loop, for one desktop_file
ScanFile(acc, file) ==
    LET r == DesktopEntry(file)
        entry == r.entry
    IN  IF r.raised THEN acc
        ELSE IF /\ entry.name # EmptyStr
                /\ entry.exec_cmd # EmptyStr
                /\ entry.name \notin acc.seen_names
             THEN [acc EXCEPT !.apps = Append(@, entry),
                              !.seen_names = @ \cup {entry.name}]
             ELSE acc

\* for desktop_file in desktop_dir.glob("*.desktop")
RECURSIVE ScanFiles(_, _)
ScanFiles(acc, files) ==
    IF files = <<>> \/ acc.raised THEN acc
    ELSE ScanFiles(ScanFile(acc, files[1]), Tail(files))

\* the body of the outer loop, for one desktop_dir
ScanDir(acc, f, d) ==
    IF ~f[d].exists THEN acc ELSE ScanFiles(acc, f[d].files)

\* for desktop_dir in desktop_dirs
RECURSIVE ScanDirs(_, _, _)
ScanDirs(acc, f, i) ==
    IF i > Len(desktop_dirs) \/ acc.raised THEN acc
    ELSE ScanDirs(ScanDir(acc, f, desktop_dirs[i]), f, i + 1)

\* get_desktop_files() over the file system f: whether it raised, and the
\* list it returned
get_desktop_files(f) ==
    LET acc == ScanDirs(ScanStart, f, 1)
    IN  [raised |-> acc.raised,
         apps |-> IF acc.raised THEN <<>> ELSE SortApps(acc.apps)]

(************************** the cache file *********************************)

\* the age, in seconds, below which the cache file is served
CACHE_TTL == 3600

\* the instants the clock takes: around the start and around one hour
Instants == {0, 1, CACHE_TTL - 1, CACHE_TTL, CACHE_TTL + 1}

\* pickle.dump(apps, f): one record per DesktopEntry, the attributes of its
\* __dict__ in order, and the closing STOP opcode
Pickle(list) ==
    [items |-> [i \in 1..Len(list) |->
                  <<list[i].filepath, list[i].name, list[i].exec_cmd,
                    list[i].icon, list[i].terminal>>],
     stop |-> TRUE]

\* what a dump that failed after k records left in the file
Truncated(list, k) ==
    [items |-> SubSeq(Pickle(list).items, 1, k), stop |-> FALSE]

\* a load that builds each entry anew through DesktopEntry.__init__, the
\* attributes set by _parse lost
Unpickle_ThroughInit(content) ==
    IF ~content.stop THEN [raised |-> TRUE, apps |-> <<>>]
    ELSE [raised |-> FALSE,
          apps |-> [i \in 1..Len(content.items) |->
                      NewEntry(content.items[i][1])]]

\* pickle.load(f): raises on a stream without its STOP opcode, else rebuilds
\* each DesktopEntry from its attributes, without running __init__
Unpickle(content) ==
    IF ~content.stop THEN [raised |-> TRUE, apps |-> <<>>]
    ELSE [raised |-> FALSE,
          apps |-> [i \in 1..Len(content.items) |->
                      [filepath |-> content.items[i][1],
                       name |-> content.items[i][2],
                       exec_cmd |-> content.items[i][3],
                       icon |-> content.items[i][4],
                       terminal |-> content.items[i][5]]]]

\* no file at CACHE_FILE
NoFile == [exists |-> FALSE, st_mtime |-> 0, content |-> Truncated(<<>>, 0)]

\* where the write of a miss can fail: creating the directory, opening the
\* file for writing, or dumping into it
WriteFaults == {"none", "mkdir", "open", "dump"}

\* the freshness test with <= for <
IsFresh_Inclusive(file, t) == (t - file.st_mtime) <= CACHE_TTL

\* the condition of the freshness test, once CACHE_FILE.exists()
IsFresh(file, t) == (t - file.st_mtime) < CACHE_TTL

\* the hit path without its try/except: a failing pickle.load propagates
TryLoad_NoExcept(file, t) ==
    IF ~file.exists THEN [hit |-> FALSE, raised |-> FALSE, apps |-> <<>>]
    ELSE IF ~IsFresh(file, t) THEN [hit |-> FALSE, raised |-> FALSE, apps |-> <<>>]
    ELSE IF Unpickle(file.content).raised
         THEN [hit |-> FALSE, raised |-> TRUE, apps |-> <<>>]
         ELSE [hit |-> TRUE, raised |-> FALSE, apps |-> Unpickle(file.content).apps]

\* the try block of the hit path: what it returns, or that it fell through
\* (age at or above the threshold, or an exception, which is passed over)
TryLoad(file, t) ==
    IF ~file.exists THEN [hit |-> FALSE, raised |-> FALSE, apps |-> <<>>]
    ELSE IF ~IsFresh(file, t) THEN [hit |-> FALSE, raised |-> FALSE, apps |-> <<>>]
    ELSE IF Unpickle(file.content).raised
         THEN [hit |-> FALSE, raised |-> FALSE, apps |-> <<>>]
         ELSE [hit |-> TRUE, raised |-> FALSE, apps |-> Unpickle(file.content).apps]

\* the miss path's write without its try/except: a failing write propagates
WriteCache_NoExcept(file, list, t, w, k) ==
    IF w = "none"
    THEN [raised |-> FALSE,
          file |-> [exists |-> TRUE, st_mtime |-> t, content |-> Pickle(list)]]
    ELSE IF w = "dump"
    THEN [raised |-> TRUE,
          file |-> [exists |-> TRUE, st_mtime |-> t, content |-> Truncated(list, k)]]
    ELSE [raised |-> TRUE, file |-> file]

\* the try block of the miss path: mkdir, open('wb'), pickle.dump, with the
\* fault w (and k records written before a failing dump); any exception is
\* passed over
WriteCache(file, list, t, w, k) ==
    IF w = "none"
    THEN [raised |-> FALSE,
          file |-> [exists |-> TRUE, st_mtime |-> t, content |-> Pickle(list)]]
    ELSE IF w = "dump"
    THEN [raised |-> FALSE,
          file |-> [exists |-> TRUE, st_mtime |-> t, content |-> Truncated(list, k)]]
    ELSE [raised |-> FALSE, file |-> file]

\* get_desktop_files_cached() with a hit that renews the file's st_mtime
CachedGet_TouchOnHit(f, file, t, w, k) ==
    LET load == TryLoad(file, t)
        scan == get_desktop_files(f)
        write == WriteCache(file, scan.apps, t, w, k)
    IN  IF load.hit
        THEN [raised |-> FALSE, scanned |-> FALSE, apps |-> load.apps,
              file |-> [file EXCEPT !.st_mtime = t]]
        ELSE [raised |-> scan.raised, scanned |-> TRUE, apps |-> scan.apps,
              file |-> write.file]

\* get_desktop_files_cached() as a function of what it reads: the file
\* system f, the cache file, the clock t and the write fault
CachedGet(f, file, t, w, k) ==
    LET load == TryLoad(file, t)
        scan == get_desktop_files(f)
        write == WriteCache(file, scan.apps, t, w, k)
    IN  IF load.raised
        THEN [raised |-> TRUE, scanned |-> FALSE, apps |-> <<>>, file |-> file]
        ELSE IF load.hit
        THEN [raised |-> FALSE, scanned |-> FALSE, apps |-> load.apps, file |-> file]
        ELSE IF scan.raised
        THEN [raised |-> TRUE, scanned |-> TRUE, apps |-> <<>>, file |-> file]
        ELSE IF write.raised
        THEN [raised |-> TRUE, scanned |-> TRUE, apps |-> <<>>, file |-> write.file]
        ELSE [raised |-> FALSE, scanned |-> TRUE, apps |-> scan.apps,
              file |-> write.file]

\* CACHE_FILE.unlink(): raises FileNotFoundError when there is no file
Unlink(file) == [raised |-> ~file.exists, file |-> NoFile]

\* clear_cache that tests exists() and then leaves the file in place
ClearCache_NoUnlink(file) == [raised |-> FALSE, file |-> file]

\* clear_cache without the exists() test
ClearCache_NoExistsTest(file) == [raised |-> ~file.exists, file |-> NoFile]

\* clear_cache() as a function of the cache file
ClearCache(file) ==
    IF file.exists THEN Unlink(file) ELSE [raised |-> FALSE, file |-> file]

(***************************** fuzzy_match *********************************)

\* the score of a substring found at index 0
SUBSTRING_BASE == 2000

\* the score of one query character found on the fuzzy path
CHAR_SCORE == 10

\* what each character of an unbroken run adds to it
RUN_BONUS == 5

\* query occurs in text_lower at the 0-based index i
At(q, t, i) == i + Len(q) <= Len(t) /\ SubSeq(t, i + 1, i + Len(q)) = q

\* query in text_lower
Contains(q, t) == \E i \in 0..Len(t) : At(q, t, i)

\* str.find with the highest index for the lowest (rfind)
Find_Last(q, t) ==
    CHOOSE i \in 0..Len(t) : At(q, t, i) /\ \A j \in (i + 1)..Len(t) : ~At(q, t, j)

\* text_lower.find(query), where query is in text_lower: the lowest index
Find(q, t) ==
    CHOOSE i \in 0..Len(t) : At(q, t, i) /\ \A j \in 0..(i - 1) : ~At(q, t, j)

\* query_idx, score, consecutive = 0, 0, 0
FuzzyStart == [query_idx |-> 0, score |-> 0, consecutive |-> 0]

\* the loop body that starts the query over at a character that does not
\* continue it
FuzzyStep_StartOver(q, st, char) ==
    IF st.query_idx < Len(q) /\ char = q[st.query_idx + 1]
    THEN [query_idx |-> st.query_idx + 1,
          consecutive |-> st.consecutive + 1,
          score |-> st.score + CHAR_SCORE + (st.consecutive + 1) * RUN_BONUS]
    ELSE [st EXCEPT !.consecutive = 0,
                    !.query_idx = IF @ < Len(q) THEN 0 ELSE @]

\* the loop body that adds to the score before it counts the character into
\* the run
FuzzyStep_AddThenCount(q, st, char) ==
    IF st.query_idx < Len(q) /\ char = q[st.query_idx + 1]
    THEN [query_idx |-> st.query_idx + 1,
          consecutive |-> st.consecutive + 1,
          score |-> st.score + CHAR_SCORE + st.consecutive * RUN_BONUS]
    ELSE [st EXCEPT !.consecutive = 0]

\* the body of `for char in text_lower`
FuzzyStep(q, st, char) ==
    IF st.query_idx < Len(q) /\ char = q[st.query_idx + 1]
    THEN [query_idx |-> st.query_idx + 1,
          consecutive |-> st.consecutive + 1,
          score |-> st.score + CHAR_SCORE + (st.consecutive + 1) * RUN_BONUS]
    ELSE [st EXCEPT !.consecutive = 0]

\* for char in text_lower, from the i-th character on
RECURSIVE FuzzyLoop(_, _, _, _)
FuzzyLoop(q, t, i, st) ==
    IF i > Len(t) THEN st
    ELSE FuzzyLoop(q, t, i + 1, FuzzyStep(q, st, t[i]))

\* fuzzy_match without the test of the empty query
fuzzy_match_NoEmptyTest(q, t) ==
    LET lq == Lower(q)
        text_lower == Lower(t)
        st == FuzzyLoop(lq, text_lower, 1, FuzzyStart)
    IN  IF Contains(lq, text_lower)
        THEN [matched |-> TRUE, score |-> SUBSTRING_BASE - Find(lq, text_lower)]
        ELSE [matched |-> st.query_idx = Len(lq), score |-> st.score]

\* fuzzy_match(query, text): the pair (matched, score)
fuzzy_match(q, t) ==
    LET lq == Lower(q)
        text_lower == Lower(t)
        st == FuzzyLoop(lq, text_lower, 1, FuzzyStart)
    IN  IF q = EmptyStr THEN [matched |-> TRUE, score |-> 0]
        ELSE IF Contains(lq, text_lower)
        THEN [matched |-> TRUE, score |-> SUBSTRING_BASE - Find(lq, text_lower)]
        ELSE [matched |-> st.query_idx = Len(lq), score |-> st.score]

\* the letters of the generated queries and texts: "a", "b", "A"
Letters == {97, 98, 65}

\* every string over Letters of at most n characters
Strings(n) == UNION { [1..k -> Letters] : k \in 0..n }

\* c, n times
Repeat(c, n) == [i \in 1..n |-> c]

s_fi      == <<102, 105>>                             \* "fi"
s_ox      == <<111, 120>>                             \* "ox"
s_xyz     == <<120, 121, 122>>                        \* "xyz"
s_Firefox == <<70, 105, 114, 101, 102, 111, 120>>     \* "Firefox"
s_Files   == <<70, 105, 108, 101, 115>>               \* "Files"
s_Spotify == <<83, 112, 111, 116, 105, 102, 121>>     \* "Spotify"
s_long    == Repeat(97, 26) \o <<98>>                 \* "aaa...ab", 27 long
s_longer  == Repeat(97, 26) \o <<99, 98>>             \* "aaa...acb", 28 long

\* the queries and the candidate texts fuzzy_match is called with
s_sigma   == <<963>>                                  \* small sigma
s_OS      == <<927, 931>>                             \* Omicron, Sigma

Queries == Strings(MaxQueryLen) \cup {s_fi, s_ox, s_xyz, s_long, s_sigma}

Texts ==
    Strings(MaxTextLen) \cup
        {s_Firefox, s_Files, s_Spotify, s_long, s_longer, s_OS}

(************************** AppLauncherPanel *******************************)

\* the most items update_app_list puts in the ListView
DISPLAY_CAP == 100

\* the key of the ranking: the score of the app's name for the query
Score(v, app) == fuzzy_match(v, app.name).score

\* the order of an ascending sort read backwards: x also goes ahead of the
\* elements of its own score
GoesAhead_OfEqual(v, x, y) == Score(v, x) >= Score(v, y)

\* reverse=True: x goes ahead of y when its score is the greater
GoesAhead(v, x, y) == Score(v, x) > Score(v, y)

\* sorted() is stable: x, which stood behind the elements of sorted, goes
\* behind every one of them it does not go ahead of
RECURSIVE InsertByScore(_, _, _)
InsertByScore(v, sorted, x) ==
    IF sorted = <<>> THEN <<x>>
    ELSE IF GoesAhead(v, x, sorted[1])
         THEN <<x>> \o sorted
         ELSE <<sorted[1]>> \o InsertByScore(v, Tail(sorted), x)

RECURSIVE SortByScore(_, _)
SortByScore(v, list) ==
    IF list = <<>> THEN <<>>
    ELSE InsertByScore(v, SortByScore(v, SubSeq(list, 1, Len(list) - 1)),
                       list[Len(list)])

\* the generator of on_input_changed without its condition
Matching_All(v, list) == list

\* (app for app in self.apps if fuzzy_match(value, app.name)[0])
Matching(v, list) ==
    SelectSeq(list, LAMBDA app : fuzzy_match(v, app.name).matched)

\* on_input_changed showing nothing for the empty value
Filtered_EmptyShowsNone(v, list) ==
    IF v = EmptyStr THEN <<>> ELSE SortByScore(v, Matching(v, list))

\* what on_input_changed(value) assigns to self.filtered_apps
Filtered(v, list) ==
    IF v = EmptyStr THEN list ELSE SortByScore(v, Matching(v, list))

\* update_app_list() without app_list.clear(): the names are appended to
\* the items the list has
UpdateAppList_NoClear(view, filtered) ==
    IF ~view.mounted THEN view
    ELSE [mounted |-> TRUE,
          items |-> view.items \o
                        [i \in 1..(IF Len(filtered) < DISPLAY_CAP
                                   THEN Len(filtered) ELSE DISPLAY_CAP) |->
                            filtered[i].name],
          count |-> Len(filtered)]

\* update_app_list(): the ListView gets the names of the first DISPLAY_CAP
\* filtered apps and the title their number; when #app-list is not mounted
\* query_one raises, which is passed over
UpdateAppList(view, filtered) ==
    IF ~view.mounted THEN view
    ELSE [mounted |-> TRUE,
          items |-> [i \in 1..(IF Len(filtered) < DISPLAY_CAP
                                THEN Len(filtered) ELSE DISPLAY_CAP) |->
                        filtered[i].name],
          count |-> Len(filtered)]

\* the names of the catalogs of the panel
s_ab  == <<97, 98>>         \* "ab"
s_aab == <<97, 97, 98>>     \* "aab"
s_aba == <<97, 98, 97>>     \* "aba"
s_Ba  == <<66, 97>>         \* "Ba"

AppNames == {s_ab, s_aab, s_aba, s_Ba, s_Firefox, s_Files, s_Spotify}

\* the entry of the application named n, as the Loader builds it
App(n) ==
    [filepath |-> <<2, n>>, name |-> n, exec_cmd |-> s_cmd, icon |-> EmptyStr,
     terminal |-> FALSE]

\* the lists get_desktop_files_cached can hand to the panel: the entries of
\* up to MaxApps applications of different names, in the order of the list
\* (the Loader's order, or the order of the list the cache file held)
Catalogs ==
    UNION { {c \in [1..k -> {App(n) : n \in AppNames}] :
                \A i, j \in 1..k : i # j => c[i] # c[j]} : k \in 0..MaxApps }

\* GellLauncher.middle_panels, by name
middle_panels == <<"Apps", "Clipboard">>

\* update_middle_panel_display(): the children of #Middle are removed and the
\* panel of the index mounted; for "Apps" that is an empty ListView #app-list,
\* which update_app_list() then fills
MiddlePanelDisplay(index, filtered) ==
    IF middle_panels[index + 1] = "Apps"
    THEN UpdateAppList([mounted |-> TRUE, items |-> <<>>, count |-> 0], filtered)
    ELSE [mounted |-> FALSE, items |-> <<>>, count |-> 0]

\* a catalog longer than the list view shows: DISPLAY_CAP + 1 entries of
\* different two-letter names
LongCatalog ==
    [i \in 1..(DISPLAY_CAP + 1) |-> App(<<97 + (i % 26), 97 + (i \div 26)>>)]

\* the catalogs of the screen: none or one entry, the three of the scenario,
\* and the long one
ScreenCatalogs ==
    {c \in Catalogs : Len(c) <= 1} \cup
        {<<App(s_Firefox), App(s_Files), App(s_Spotify)>>, LongCatalog}

\* the indexes launch_selected_app is called with: around the short lists,
\* and around the last row of the full list view
Indices ==
    (-1..MaxApps) \cup {DISPLAY_CAP - 1, DISPLAY_CAP, DISPLAY_CAP + 1}

\* the values of the search input: every short string, and "fi"
Values == Strings(MaxValueLen) \cup {s_fi}

\* the values typed on the screen: of one letter at most, and "fi"
ScreenValues == {v \in Values : Len(v) <= 1} \cup {s_fi}

(************************** DesktopEntry.launch ****************************)

\* the characters of the generated commands: "x", " ", "%", "U"
CmdChars == {120, 32, 37, 85}

Commands == UNION { [1..k -> CmdChars] : k \in 0..MaxCmdLen }

\* the characters str.strip() removes: tab, newline, vertical tab, form feed,
\* carriage return, space
Whitespace == {9, 10, 11, 12, 13, 32}

\* str.lstrip()
RECURSIVE LStrip(_)
LStrip(str) ==
    IF str # <<>> /\ str[1] \in Whitespace THEN LStrip(Tail(str)) ELSE str

\* str.rstrip()
RECURSIVE RStrip(_)
RStrip(str) ==
    IF str # <<>> /\ str[Len(str)] \in Whitespace
    THEN RStrip(SubSeq(str, 1, Len(str) - 1))
    ELSE str

\* str.strip()
Strip(str) == RStrip(LStrip(str))

\* str.split('%')[0]: what precedes the first '%', all of str without one
RECURSIVE BeforePercent(_)
BeforePercent(str) ==
    IF str = <<>> \/ str[1] = 37 THEN <<>>
    ELSE <<str[1]>> \o BeforePercent(Tail(str))

\* launch() without its try/except around Popen
launch_NoExcept(e, popen_raises) ==
    IF e.exec_cmd = EmptyStr
    THEN [raised |-> FALSE,
          popen |-> [called |-> FALSE, cmd |-> EmptyStr, failed |-> FALSE]]
    ELSE [raised |-> popen_raises,
          popen |-> [called |-> TRUE, cmd |-> Strip(BeforePercent(e.exec_cmd)),
                     failed |-> popen_raises]]

\* DesktopEntry.launch() on the entry e, where Popen raises or not
launch(e, popen_raises) ==
    IF e.exec_cmd = EmptyStr
    THEN [raised |-> FALSE,
          popen |-> [called |-> FALSE, cmd |-> EmptyStr, failed |-> FALSE]]
    ELSE [raised |-> FALSE,
          popen |-> [called |-> TRUE, cmd |-> Strip(BeforePercent(e.exec_cmd)),
                     failed |-> popen_raises]]

\* launch_selected_app(index) on the list filtered: what it returns, the
\* entry it launches and what launch() does
LaunchSelected(filtered, index, popen_raises) ==
    IF filtered # <<>> /\ 0 <= index /\ index < Len(filtered)
    THEN [returned |-> TRUE,
          target |-> filtered[index + 1],
          raised |-> launch(filtered[index + 1], popen_raises).raised,
          popen |-> launch(filtered[index + 1], popen_raises).popen]
    ELSE [returned |-> FALSE,
          target |-> NewEntry(<<0, 0>>),
          raised |-> FALSE,
          popen |-> [called |-> FALSE, cmd |-> EmptyStr, failed |-> FALSE]]

(***************************** actions *************************************)

\* no clear_cache is waiting for its get_desktop_files_cached
NotCleared == [st |-> "idle", file |-> NoFile]

\* no complete dump stands in the cache file
NoDump == [apps |-> <<>>, at |-> 0]

\* a step of the environment: no call has just completed
NoCall ==
    /\ op' = "none"
    /\ apps' = <<>>
    /\ raised' = FALSE
    /\ scanned' = FALSE
    /\ pre' = NoFile
    /\ wfault' = "none"
    /\ since_clear' = IF since_clear.st = "cleared" THEN since_clear ELSE NotCleared

\* the clock advances
Tick ==
    /\ \E t \in Instants : t > now /\ now' = t
    /\ NoCall
    /\ UNCHANGED <<fs, cache_file, dumped, uivars>>

\* a directory of desktop_dirs is created
MkDir(d) ==
    /\ ~fs[d].exists
    /\ fs' = [fs EXCEPT ![d] = EmptyDir]
    /\ NoCall
    /\ UNCHANGED <<cache_file, now, dumped, uivars>>

\* a *.desktop file with content c appears in directory d, behind the files
\* glob already yields; no more than limit files in all
InstallFile(d, c, limit) ==
    /\ fs[d].exists
    /\ TotalFiles(fs) < limit
    /\ fs' = [fs EXCEPT ![d].files =
                 Append(@, [path |-> <<d, Len(@) + 1>>, read_ok |-> c.read_ok,
                            has_section |-> c.has_section, entry |-> c.entry])]
    /\ NoCall
    /\ UNCHANGED <<cache_file, now, dumped, uivars>>

\* a call of get_desktop_files()
Scan ==
    /\ op' = "scan"
    /\ apps' = get_desktop_files(fs).apps
    /\ raised' = get_desktop_files(fs).raised
    /\ scanned' = TRUE
    /\ pre' = cache_file
    /\ wfault' = "none"
    /\ UNCHANGED <<fs, cache_file, now, since_clear, dumped, uivars>>

\* a call of get_desktop_files_cached(), whose write meets the fault w
get_desktop_files_cached(w, k) ==
    LET r == CachedGet(fs, cache_file, now, w, k)
    IN  /\ k <= Len(get_desktop_files(fs).apps)
        /\ (w # "dump") => k = 0
        /\ (~r.scanned) => w = "none"
        /\ op' = "get"
        /\ apps' = r.apps
        /\ raised' = r.raised
        /\ scanned' = r.scanned
        /\ cache_file' = r.file
        /\ pre' = cache_file
        /\ wfault' = w
        /\ since_clear' = IF since_clear.st = "cleared"
                          THEN [since_clear EXCEPT !.st = "first_get"]
                          ELSE NotCleared
        /\ dumped' = IF ~r.scanned \/ w \in {"mkdir", "open"} THEN dumped
                     ELSE IF w = "none" THEN [apps |-> get_desktop_files(fs).apps,
                                              at |-> now]
                     ELSE NoDump
        /\ UNCHANGED <<fs, now, uivars>>

\* a call of clear_cache()
clear_cache ==
    LET r == ClearCache(cache_file)
    IN  /\ op' = "clear"
        /\ apps' = <<>>
        /\ raised' = r.raised
        /\ scanned' = FALSE
        /\ cache_file' = r.file
        /\ pre' = cache_file
        /\ wfault' = "none"
        /\ since_clear' = [st |-> "cleared",
                           file |-> IF since_clear.st = "cleared"
                                    THEN since_clear.file ELSE cache_file]
        /\ dumped' = NoDump
        /\ UNCHANGED <<fs, now, uivars>>

(*************************** specifications ********************************)

\* no call of fuzzy_match, of the panel or of launch() has been made
FuzzyIdle ==
    /\ query = EmptyStr
    /\ text = EmptyStr
    /\ result = [matched |-> FALSE, score |-> 0]

PanelIdle ==
    /\ self_apps = <<>>
    /\ filtered_apps = <<>>
    /\ value = EmptyStr
    /\ list_view = [mounted |-> FALSE, items |-> <<>>, count |-> 0]
    /\ current_middle_panel_index = 0

\* no row is selected
NoSelection ==
    [index |-> 0, returned |-> FALSE, shown |-> FALSE, label |-> EmptyStr]

LaunchIdle ==
    /\ selection = NoSelection
    /\ target = NewEntry(<<0, 0>>)
    /\ popen = [called |-> FALSE, cmd |-> EmptyStr, failed |-> FALSE]

\* the two processes at rest
Procs == {1, 2}

Resting ==
    [pc |-> "idle", op |-> "none", apps |-> <<>>, offset |-> 0,
     orphan |-> FALSE, ret |-> <<>>, raised |-> FALSE]

RaceIdle ==
    /\ procs = [p \in Procs |-> Resting]
    /\ slots = <<>>
    /\ scans = {}

(* WeatherPanel (src/weather_panel.py).  update_weather is called by on_mount
   on the thread of the handlers, and by the worker that on_panel_focus
   starts with run_worker, which runs _background_update aside of the
   handlers; each caller goes through the statements of update_weather one
   at a time. *)
Callers == {"on_mount", "worker"}

\* the weather data: None, or a dict whose 'temp' is what the service sent as
\* temp_C: a numeral, 'N/A' (the default of the .get), or a JSON null
Temps == {"21", "N/A", "null"}

NoData == [kind |-> "None", temp |-> "N/A"]

Data(t) == [kind |-> "dict", temp |-> t]

\* what fetch_weather_data returns: every exception in it is caught there
Fetched == {NoData} \cup {Data(t) : t \in Temps}

\* last_fetch_time before the first fetch
NoFetch == -1

CACHE_DURATION == 3600

is_cache_valid(w, t) ==
    /\ w.weather_data # NoData
    /\ w.last_fetch_time # NoFetch
    /\ t - w.last_fetch_time < CACHE_DURATION

\* _refresh_display: nothing without data; float(temp) raises ValueError on
\* 'N/A', which is caught and answered by _show_error, and TypeError on None,
\* which no except clause of it names
refresh_display(data) ==
    IF data = NoData THEN "returned"
    ELSE IF data.temp = "N/A" THEN "error_shown"
    ELSE IF data.temp = "null" THEN "raised"
    ELSE "shown"

AtRest == [pc |-> "idle", new_data |-> NoData]

WeatherIdle ==
    weather = [weather_data |-> NoData, last_fetch_time |-> NoFetch,
               is_fetching |-> FALSE, calls |-> [c \in Callers |-> AtRest],
               raised |-> FALSE]

UiIdle == FuzzyIdle /\ PanelIdle /\ LaunchIdle /\ RaceIdle /\ WeatherIdle

\* the cache and the Loader at rest, for the specifications of the other parts
CacheIdle ==
    /\ fs = [d \in Dirs |-> EmptyDir]
    /\ cache_file = NoFile
    /\ now = 0
    /\ apps = <<>>
    /\ scanned = FALSE
    /\ pre = NoFile
    /\ wfault = "none"
    /\ since_clear = NotCleared
    /\ dumped = NoDump

cachevars == <<fs, cache_file, now, apps, scanned, pre, wfault, since_clear,
               dumped>>

\* the launcher in use: all three directories exist, no cache file yet
Init ==
    /\ fs = [d \in Dirs |-> EmptyDir]
    /\ cache_file = NoFile
    /\ now = 0
    /\ op = "none"
    /\ apps = <<>>
    /\ raised = FALSE
    /\ scanned = FALSE
    /\ pre = NoFile
    /\ wfault = "none"
    /\ since_clear = NotCleared
    /\ dumped = NoDump
    /\ UiIdle

Next ==
    \/ Tick
    \/ \E d \in Dirs, c \in Packages : InstallFile(d, c, MaxInstalled)
    \/ \E w \in WriteFaults, k \in 0..MaxInstalled : get_desktop_files_cached(w, k)
    \/ clear_cache

Spec == Init /\ [][Next]_vars

\* the file system with the files of contents cs in /usr/share/applications
Installed(cs) ==
    [d \in Dirs |->
        IF d = 2
        THEN [exists |-> TRUE,
              files |-> [i \in 1..Len(cs) |->
                           [path |-> <<d, i>>, read_ok |-> cs[i].read_ok,
                            has_section |-> cs[i].has_section,
                            entry |-> cs[i].entry]]]
        ELSE EmptyDir]

\* the launcher on a machine whose applications are installed: up to MaxFiles
\* launchable files, no cache file yet
InstalledInit ==
    /\ fs \in {Installed(cs) : cs \in UNION {[1..n -> Launchable] : n \in 0..MaxFiles}}
    /\ cache_file = NoFile
    /\ now = 0
    /\ op = "none"
    /\ apps = <<>>
    /\ raised = FALSE
    /\ scanned = FALSE
    /\ pre = NoFile
    /\ wfault = "none"
    /\ since_clear = NotCleared
    /\ dumped = NoDump
    /\ UiIdle

InstalledNext ==
    \/ Tick
    \/ \E w \in WriteFaults, k \in 0..MaxFiles : get_desktop_files_cached(w, k)
    \/ clear_cache

InstalledSpec == InstalledInit /\ [][InstalledNext]_vars

(* Two processes on one cache file. Each call advances by the system calls
   it makes: exists(), stat(), open('rb') with pickle.load, the scan,
   open('wb'), one write per record of the dump and one for its STOP, and
   unlink(). *)

\* what the single launcher's variables do while the two processes run
racerest ==
    <<fs, now, op, apps, raised, scanned, pre, wfault, since_clear, dumped,
      fuzzyvars, panelvars, launchvars, weather>>

\* a record of the dump, its STOP opcode, and bytes no write has set
Item(e) == [kind |-> "item", rec |-> e]

Stop == [kind |-> "stop", rec |-> <<>>]

Hole == [kind |-> "hole", rec |-> <<>>]

\* write(x) at the place pos of the data sl of a file
WriteAt(sl, pos, x) ==
    IF pos <= Len(sl) THEN [sl EXCEPT ![pos] = x]
    ELSE sl \o [i \in 1..(pos - Len(sl) - 1) |-> Hole] \o <<x>>

\* the data sl as pickle.load reads them: the records up to the first slot
\* that is no record, and whether that slot is the STOP opcode
Stream(sl) ==
    LET n == CHOOSE k \in 0..Len(sl) :
                 /\ \A i \in 1..k : sl[i].kind = "item"
                 /\ k < Len(sl) => sl[k + 1].kind # "item"
    IN  [items |-> [i \in 1..n |-> sl[i].rec],
         stop |-> n < Len(sl) /\ sl[n + 1].kind = "stop"]

\* CACHE_FILE with the data sl, written at the instant t
FileWith(sl, t) == [exists |-> TRUE, st_mtime |-> t, content |-> Stream(sl)]

\* the process p goes on as new; the others stand
Advance(p, new) == procs' = [procs EXCEPT ![p] = new]

\* get_desktop_files_cached(), line 118: CACHE_FILE.exists()
GetExists(p) ==
    /\ procs[p].pc = "idle"
    /\ Advance(p, [Resting EXCEPT !.op = "get",
                                  !.pc = IF cache_file.exists THEN "stat"
                                         ELSE "scan"])
    /\ UNCHANGED <<cache_file, slots, scans, racerest>>

\* line 120: stat() raises when the file is gone, which is passed over
GetStat(p) ==
    /\ procs[p].pc = "stat"
    /\ Advance(p, [procs[p] EXCEPT
                      !.pc = IF cache_file.exists /\ IsFresh(cache_file, now)
                             THEN "load" ELSE "scan"])
    /\ UNCHANGED <<cache_file, slots, scans, racerest>>

\* lines 121-122: open('rb') and pickle.load; any exception is passed over
GetLoad(p) ==
    /\ procs[p].pc = "load"
    /\ Advance(p, IF TryLoad(cache_file, now).hit
                  THEN [procs[p] EXCEPT !.pc = "done",
                                        !.ret = TryLoad(cache_file, now).apps]
                  ELSE [procs[p] EXCEPT !.pc = "scan"])
    /\ UNCHANGED <<cache_file, slots, scans, racerest>>

\* line 126: apps = get_desktop_files()
GetScan(p) ==
    /\ procs[p].pc = "scan"
    /\ Advance(p, [procs[p] EXCEPT !.pc = "open",
                                   !.apps = get_desktop_files(fs).apps])
    /\ scans' = scans \cup {get_desktop_files(fs).apps}
    /\ UNCHANGED <<cache_file, slots, racerest>>

\* line 129: open('wb') creates the file or empties it
GetOpen(p) ==
    /\ procs[p].pc = "open"
    /\ Advance(p, [procs[p] EXCEPT !.pc = "dump", !.offset = 0,
                                   !.orphan = FALSE])
    /\ slots' = <<>>
    /\ cache_file' = FileWith(<<>>, now)
    /\ UNCHANGED <<scans, racerest>>

\* line 130: pickle.dump writes the next record at the offset of p's own
\* file object, or the STOP opcode behind the last one; the file is then
\* closed and apps returned. A file unlinked since p opened it is written
\* out of sight.
GetDump(p) ==
    LET me == procs[p]
        last == me.offset = Len(me.apps)
        x == IF last THEN Stop ELSE Item(Pickle(me.apps).items[me.offset + 1])
    IN  /\ me.pc = "dump"
        /\ Advance(p, IF last THEN [me EXCEPT !.pc = "done", !.ret = me.apps]
                      ELSE [me EXCEPT !.offset = @ + 1])
        /\ slots' = IF me.orphan THEN slots ELSE WriteAt(slots, me.offset + 1, x)
        /\ cache_file' = IF me.orphan THEN cache_file
                         ELSE FileWith(WriteAt(slots, me.offset + 1, x), now)
        /\ UNCHANGED <<scans, racerest>>

\* clear_cache(), line 141: CACHE_FILE.exists()
ClearExists(p) ==
    /\ procs[p].pc = "idle"
    /\ Advance(p, [Resting EXCEPT !.op = "clear",
                                  !.pc = IF cache_file.exists THEN "unlink"
                                         ELSE "done"])
    /\ UNCHANGED <<cache_file, slots, scans, racerest>>

\* line 142: CACHE_FILE.unlink(), as the file is by now
ClearUnlink(p) ==
    /\ procs[p].pc = "unlink"
    /\ procs' = [q \in Procs |->
                   IF q = p
                   THEN [procs[p] EXCEPT !.pc = "done",
                                         !.raised = Unlink(cache_file).raised]
                   ELSE IF procs[q].pc = "dump" /\ cache_file.exists
                   THEN [procs[q] EXCEPT !.orphan = TRUE]
                   ELSE procs[q]]
    /\ slots' = <<>>
    /\ cache_file' = Unlink(cache_file).file
    /\ UNCHANGED <<scans, racerest>>

\* the call of p has returned, or raised; p is free for the next
Return(p) ==
    /\ procs[p].pc = "done"
    /\ Advance(p, Resting)
    /\ UNCHANGED <<cache_file, slots, scans, racerest>>

\* two launchers started on the same machine, no cache file yet
RaceInit ==
    /\ fs = [d \in Dirs |-> EmptyDir]
    /\ cache_file = NoFile
    /\ now = 0
    /\ op = "none"
    /\ apps = <<>>
    /\ raised = FALSE
    /\ scanned = FALSE
    /\ pre = NoFile
    /\ wfault = "none"
    /\ since_clear = NotCleared
    /\ dumped = NoDump
    /\ UiIdle

RaceNext ==
    \/ \E d \in Dirs, c \in Packages : InstallFile(d, c, MaxInstalled)
    \/ \E p \in Procs :
           \/ GetExists(p)
           \/ GetStat(p)
           \/ GetLoad(p)
           \/ GetScan(p)
           \/ GetOpen(p)
           \/ GetDump(p)
           \/ ClearExists(p)
           \/ ClearUnlink(p)
           \/ Return(p)

RaceSpec == RaceInit /\ [][RaceNext]_vars

\* a call of fuzzy_match(query, text)
Match ==
    /\ op = "none"
    /\ op' = "match"
    /\ result' = fuzzy_match(query, text)
    /\ raised' = FALSE
    /\ UNCHANGED <<cachevars, query, text, panelvars, launchvars, racevars, weather>>

\* fuzzy_match alone: it is called once, with any query and any text
FuzzyInit ==
    /\ query \in Queries
    /\ text \in Texts
    /\ result = [matched |-> FALSE, score |-> 0]
    /\ op = "none"
    /\ raised = FALSE
    /\ CacheIdle
    /\ PanelIdle
    /\ LaunchIdle
    /\ RaceIdle
    /\ WeatherIdle

FuzzyNext == Match

FuzzySpec == FuzzyInit /\ [][FuzzyNext]_vars

\* a step that launches nothing: no launch has just been made
NoLaunch ==
    /\ selection' = NoSelection
    /\ target' = NewEntry(<<0, 0>>)
    /\ popen' = [called |-> FALSE, cmd |-> EmptyStr, failed |-> FALSE]

\* on_input_changed narrowing the list it already shows, not the catalog
on_input_changed_Incremental(v) ==
    LET ranked == Filtered(v, filtered_apps)
    IN  /\ op' = "input"
        /\ raised' = FALSE
        /\ value' = v
        /\ filtered_apps' = ranked
        /\ list_view' = UpdateAppList(list_view, ranked)
        /\ NoLaunch
        /\ UNCHANGED <<cachevars, self_apps, current_middle_panel_index,
                       fuzzyvars, racevars, weather>>

\* AppLauncherPanel.on_input_changed(v)
on_input_changed(v) ==
    LET ranked == Filtered(v, self_apps)
    IN  /\ op' = "input"
        /\ raised' = FALSE
        /\ value' = v
        /\ filtered_apps' = ranked
        /\ list_view' = UpdateAppList(list_view, ranked)
        /\ NoLaunch
        /\ UNCHANGED <<cachevars, self_apps, current_middle_panel_index,
                       fuzzyvars, racevars, weather>>

\* AppLauncherPanel.reset(): the search input is emptied, the list is the
\* catalog again
reset ==
    /\ op' = "reset"
    /\ raised' = FALSE
    /\ value' = EmptyStr
    /\ filtered_apps' = self_apps
    /\ list_view' = UpdateAppList(list_view, self_apps)
    /\ NoLaunch
    /\ UNCHANGED <<cachevars, self_apps, current_middle_panel_index, fuzzyvars,
                   racevars, weather>>

\* the panel: built on a catalog and shown, then the search input changes
PanelInit ==
    /\ self_apps \in Catalogs
    /\ filtered_apps = self_apps
    /\ value = EmptyStr
    /\ list_view = UpdateAppList([mounted |-> TRUE, items |-> <<>>, count |-> 0],
                                 self_apps)
    /\ current_middle_panel_index = 0
    /\ op = "none"
    /\ raised = FALSE
    /\ CacheIdle
    /\ FuzzyIdle
    /\ LaunchIdle
    /\ RaceIdle
    /\ WeatherIdle

PanelNext ==
    \/ \E v \in Values : on_input_changed(v)
    \/ reset

PanelSpec == PanelInit /\ [][PanelNext]_vars

\* GellLauncher.switch_middle_panel(direction)
switch_middle_panel(direction) ==
    LET index == (current_middle_panel_index + direction) % Len(middle_panels)
    IN  /\ op' = "switch"
        /\ raised' = FALSE
        /\ current_middle_panel_index' = index
        /\ list_view' = MiddlePanelDisplay(index, filtered_apps)
        /\ NoLaunch
        /\ UNCHANGED <<cachevars, self_apps, filtered_apps, value, fuzzyvars,
                       racevars, weather>>

\* GellLauncher.on_screen_resume(): reset(), and back to the first panel
on_screen_resume ==
    /\ op' = "resume"
    /\ raised' = FALSE
    /\ value' = EmptyStr
    /\ filtered_apps' = self_apps
    /\ current_middle_panel_index' = 0
    /\ list_view' = IF current_middle_panel_index # 0
                    THEN MiddlePanelDisplay(0, self_apps)
                    ELSE UpdateAppList(list_view, self_apps)
    /\ NoLaunch
    /\ UNCHANGED <<cachevars, self_apps, fuzzyvars, racevars, weather>>

\* GellLauncher.on_list_view_selected / on_input_submitted with the index:
\* launch_selected_app(index) and, when that returns True,
\* action_hide_window(), which ends with reset()
on_selected(index, popen_raises) ==
    LET r == LaunchSelected(filtered_apps, index, popen_raises)
        on_row == list_view.mounted /\ 0 <= index /\ index < Len(list_view.items)
    IN  /\ op' = "select"
        /\ raised' = r.raised
        /\ selection' = [index |-> index, returned |-> r.returned,
                         shown |-> on_row,
                         label |-> IF on_row THEN list_view.items[index + 1]
                                   ELSE EmptyStr]
        /\ target' = r.target
        /\ popen' = r.popen
        /\ value' = IF r.returned THEN EmptyStr ELSE value
        /\ filtered_apps' = IF r.returned THEN self_apps ELSE filtered_apps
        /\ list_view' = IF r.returned THEN UpdateAppList(list_view, self_apps)
                        ELSE list_view
        /\ UNCHANGED <<cachevars, self_apps, current_middle_panel_index,
                       fuzzyvars, racevars, weather>>

\* the screen: the panel built on a catalog, the first middle panel shown
ScreenInit ==
    /\ self_apps \in ScreenCatalogs
    /\ filtered_apps = self_apps
    /\ value = EmptyStr
    /\ current_middle_panel_index = 0
    /\ list_view = MiddlePanelDisplay(0, self_apps)
    /\ op = "none"
    /\ raised = FALSE
    /\ CacheIdle
    /\ FuzzyIdle
    /\ LaunchIdle
    /\ RaceIdle
    /\ WeatherIdle

ScreenNext ==
    \/ \E v \in ScreenValues : on_input_changed(v)
    \/ \E direction \in {-1, 1} : switch_middle_panel(direction)
    \/ on_screen_resume
    \/ \E index \in Indices, popen_raises \in BOOLEAN :
           on_selected(index, popen_raises)

ScreenSpec == ScreenInit /\ [][ScreenNext]_vars

\* a call of launch() on the entry target
Launch(popen_raises) ==
    /\ op = "none"
    /\ op' = "launch"
    /\ raised' = launch(target, popen_raises).raised
    /\ popen' = launch(target, popen_raises).popen
    /\ UNCHANGED <<cachevars, target, selection, fuzzyvars, panelvars, racevars, weather>>

\* launch() alone: it is called once, on an entry with any Exec command
LaunchInit ==
    /\ target \in {[App(s_ab) EXCEPT !.exec_cmd = c] : c \in Commands}
    /\ selection = NoSelection
    /\ popen = [called |-> FALSE, cmd |-> EmptyStr, failed |-> FALSE]
    /\ op = "none"
    /\ raised = FALSE
    /\ CacheIdle
    /\ FuzzyIdle
    /\ PanelIdle
    /\ RaceIdle
    /\ WeatherIdle

LaunchNext == \E popen_raises \in BOOLEAN : Launch(popen_raises)

LaunchSpec == LaunchInit /\ [][LaunchNext]_vars

\* what the launcher's other variables do while the weather panel runs
weatherrest ==
    <<fs, cache_file, now, op, apps, raised, scanned, pre, wfault, since_clear,
      dumped, fuzzyvars, panelvars, launchvars, racevars>>

\* caller c moves to pc, with new_data as its local variable
Goes(w, c, pc, new_data) ==
    [w EXCEPT !.calls[c] = [pc |-> pc, new_data |-> new_data]]

\* a call of update_weather by c ends, having raised or not
Ends(w, c, exception) ==
    [Goes(w, c, "idle", NoData) EXCEPT !.raised = exception]

\* on_mount: the panel is mounted and calls update_weather
on_mount ==
    /\ weather.calls["on_mount"].pc = "idle"
    /\ weather' = Goes(weather, "on_mount", "called", NoData)
    /\ UNCHANGED weatherrest

\* on_panel_focus: with an expired cache and no fetch flagged it starts the
\* worker, which calls update_weather; otherwise it refreshes the display
on_panel_focus ==
    /\ weather.calls["on_mount"].pc = "idle"
    /\ weather.calls["worker"].pc = "idle"
    /\ weather' = IF ~is_cache_valid(weather, now) /\ ~weather.is_fetching
                  THEN Goes(weather, "worker", "called", NoData)
                  ELSE weather
    /\ UNCHANGED weatherrest

\* update_weather, l.261-267: the cache test and the test of is_fetching
UpdateTest(c) ==
    /\ weather.calls[c].pc = "called"
    /\ weather' =
           IF is_cache_valid(weather, now)
           THEN Ends(weather, c,
                     refresh_display(weather.weather_data) = "raised")
           ELSE IF weather.is_fetching
           THEN Ends(weather, c, FALSE)
           ELSE Goes(weather, c, "tested", NoData)
    /\ UNCHANGED weatherrest

\* update_weather, l.269: self.is_fetching = True
UpdateSetFlag(c) ==
    /\ weather.calls[c].pc = "tested"
    /\ weather' = [Goes(weather, c, "fetching", NoData)
                       EXCEPT !.is_fetching = TRUE]
    /\ UNCHANGED weatherrest

\* update_weather, l.272: new_data = self.fetch_weather_data()
UpdateFetch(c, d) ==
    /\ weather.calls[c].pc = "fetching"
    /\ weather' = Goes(weather, c, "fetched", d)
    /\ UNCHANGED weatherrest

\* update_weather, l.274-281: the data is stored and displayed, or the error
\* is shown; an exception of _refresh_display ends the call here
UpdateShow(c) ==
    /\ weather.calls[c].pc = "fetched"
    /\ LET new_data == weather.calls[c].new_data
           stored == [weather EXCEPT !.weather_data = new_data,
                                     !.last_fetch_time = now]
       IN  weather' =
               IF new_data = NoData
               THEN Goes(weather, c, "shown", NoData)
               ELSE IF refresh_display(new_data) = "raised"
               THEN Ends(stored, c, TRUE)
               ELSE Goes(stored, c, "shown", NoData)
    /\ UNCHANGED weatherrest

\* update_weather, l.283: self.is_fetching = False
UpdateClearFlag(c) ==
    /\ weather.calls[c].pc = "shown"
    /\ weather' = [Ends(weather, c, FALSE) EXCEPT !.is_fetching = FALSE]
    /\ UNCHANGED weatherrest

\* the weather panel alone: it is mounted and focused as the user switches
\* panels, while the clock advances
WeatherInit ==
    /\ op = "none"
    /\ raised = FALSE
    /\ CacheIdle
    /\ UiIdle

WeatherNext ==
    \/ Tick
    \/ on_mount
    \/ on_panel_focus
    \/ \E c \in Callers :
           \/ UpdateTest(c)
           \/ UpdateSetFlag(c)
           \/ \E d \in Fetched : UpdateFetch(c, d)
           \/ UpdateShow(c)
           \/ UpdateClearFlag(c)

WeatherSpec == WeatherInit /\ [][WeatherNext]_vars

\* the Loader alone: any file system of at most MaxFiles files is built, then
\* scanned once
LoaderInit ==
    /\ fs = [d \in Dirs |-> NoDir]
    /\ cache_file = NoFile
    /\ now = 0
    /\ op = "none"
    /\ apps = <<>>
    /\ raised = FALSE
    /\ scanned = FALSE
    /\ pre = NoFile
    /\ wfault = "none"
    /\ since_clear = NotCleared
    /\ dumped = NoDump
    /\ UiIdle

LoaderNext ==
    \/ \E d \in Dirs : MkDir(d)
    \/ \E d \in Dirs, c \in DesktopFiles : InstallFile(d, c, MaxFiles)
    \/ Scan

LoaderSpec == LoaderInit /\ [][LoaderNext]_vars

(************************ what the claims speak of *************************)

\* the *.desktop files of the file system f
AllFiles(f) ==
    UNION { {f[d].files[i] : i \in 1..Len(f[d].files)} : d \in Dirs }

\* the places in the returned list of the entries read from file
FromFile(file) == {i \in 1..Len(apps) : apps[i].filepath = file.path}

\* the places in the returned list of the entries named n
Named(n) == {i \in 1..Len(apps) : apps[i].name = n}

\* file has a [Desktop Entry] section that sets key
Sets(file, key) ==
    file.read_ok /\ file.has_section /\ key \in DOMAIN file.entry

\* file declares the non-empty displayName n
Declares(file, n) ==
    n # EmptyStr /\ Sets(file, "Name") /\ file.entry["Name"] = n

\* file sets key to a word that reads as true ("true", "yes", "on", "1"), in
\* some letter casing
FlagTrue(file, key) ==
    Sets(file, key) /\ Lower(file.entry[key]) \in TrueStrings

\* file cannot be parsed: config.read or the DesktopEntry constructor raises,
\* or there is no [Desktop Entry] section
Unparsable(file) ==
    ~file.read_ok \/ ~file.has_section \/ DesktopEntry(file).raised

Parsable(file) == ~Unparsable(file)

\* file, scanned alone, gives an entry: it parses, is not hidden, and has a
\* non-empty Name and a non-empty Exec
YieldsEntry(file) ==
    /\ Parsable(file)
    /\ DesktopEntry(file).entry.name # EmptyStr
    /\ DesktopEntry(file).entry.exec_cmd # EmptyStr

\* the first directory, in the order ~/.local/share/applications (1),
\* /usr/share/applications (2), /usr/local/share/applications (3), among dirs
Earliest(dirs) == CHOOSE d \in dirs : \A e \in dirs : d <= e

\* the file system f without its unparsable files, and with its missing
\* directories present and empty
WithoutUnparsable(f) ==
    [d \in Dirs |-> [exists |-> TRUE, files |-> SelectSeq(f[d].files, Parsable)]]

\* the cache file as the last call found it was within its hour
PreFresh == pre.exists /\ (now - pre.st_mtime) < CACHE_TTL

(******************************* claims ************************************)

\* C1: get_desktop_files_cached returns the cached catalog, without invoking
\* the Loader, when the cache file exists, can be deserialized and is less
\* than 3600 seconds old; it invokes the Loader when the file is 3600 seconds
\* old or older, or does not exist.
C1_FreshCacheServed ==
    op = "get" =>
        /\ (PreFresh /\ ~Unpickle(pre.content).raised)
               => (~scanned /\ ~raised /\ apps = Unpickle(pre.content).apps)
        /\ (~pre.exists \/ (now - pre.st_mtime) >= CACHE_TTL) => scanned

\* a cache 3599 seconds old was served, although a scan would by now return
\* another catalog
C1_Witness ==
    /\ op = "get"
    /\ pre.exists
    /\ now - pre.st_mtime = CACHE_TTL - 1
    /\ ~scanned
    /\ apps = Unpickle(pre.content).apps
    /\ apps # get_desktop_files(fs).apps

\* C2, as stated: no two entries of a catalog the Loader returns have names
\* that are equal after lowercasing.
C2_UniqueIgnoringCase ==
    op = "scan" =>
        \A i, j \in 1..Len(apps) :
            i # j => Lower(apps[i].name) # Lower(apps[j].name)

\* C2, amended: no two entries of a catalog the Loader returns have the same
\* name, compared exactly (case-sensitively).
C2_UniqueExactName ==
    op = "scan" =>
        \A i, j \in 1..Len(apps) : i # j => apps[i].name # apps[j].name

\* two files that each give an entry declare the same name, and the scan
\* kept one entry of that name
C2_Witness ==
    /\ op = "scan"
    /\ \E f1, f2 \in AllFiles(fs) :
           /\ f1.path # f2.path
           /\ YieldsEntry(f1) /\ YieldsEntry(f2)
           /\ DesktopEntry(f1).entry.name = DesktopEntry(f2).entry.name
           /\ Cardinality(Named(DesktopEntry(f1).entry.name)) = 1

\* C3, as stated: when files in two different directories declare the same
\* displayName, the catalog has exactly one entry of that name, and it is
\* from the earliest of the directories with a file declaring it.
C3_EarliestDeclaringWins ==
    op = "scan" =>
        \A f1, f2 \in AllFiles(fs) :
            \A n \in {f1.entry[k] : k \in DOMAIN f1.entry \cap {"Name"}} :
                (f1.path[1] # f2.path[1] /\ Declares(f1, n) /\ Declares(f2, n))
                    => /\ Cardinality(Named(n)) = 1
                       /\ \A i \in Named(n) :
                              apps[i].filepath[1] =
                                  Earliest({f.path[1] : f \in
                                      {g \in AllFiles(fs) : Declares(g, n)}})

\* C3, amended: when files in two different directories declare the same
\* displayName and at least one file declaring it gives an entry (it parses,
\* is not hidden and has a non-empty Name and Exec), the catalog has exactly
\* one entry of that name, and it is from the earliest of the directories
\* with such a file.
C3_EarliestLaunchableWins ==
    op = "scan" =>
        \A f1, f2 \in AllFiles(fs) :
            \A n \in {f1.entry[k] : k \in DOMAIN f1.entry \cap {"Name"}} :
                ( /\ f1.path[1] # f2.path[1]
                  /\ Declares(f1, n) /\ Declares(f2, n)
                  /\ \E g \in AllFiles(fs) : Declares(g, n) /\ YieldsEntry(g) )
                    => /\ Cardinality(Named(n)) = 1
                       /\ \A i \in Named(n) :
                              apps[i].filepath[1] =
                                  Earliest({f.path[1] : f \in
                                      {g \in AllFiles(fs) :
                                          Declares(g, n) /\ YieldsEntry(g)}})

\* /usr/share/applications and /usr/local/share/applications each hold a
\* launchable file of one name, and the entry of /usr/share/applications is
\* the one in the catalog
C3_Witness ==
    /\ op = "scan"
    /\ \E f1, f2 \in AllFiles(fs) :
           /\ f1.path[1] = 2 /\ f2.path[1] = 3
           /\ YieldsEntry(f1) /\ YieldsEntry(f2)
           /\ DesktopEntry(f1).entry.name = DesktopEntry(f2).entry.name
           /\ FromFile(f1) # {}
           /\ FromFile(f2) = {}

\* C4: a file whose NoDisplay or Hidden is true, in any letter casing of the
\* value, has no entry in the catalog, whatever else it sets.
C4_HiddenNeverListed ==
    op = "scan" =>
        \A file \in AllFiles(fs) :
            (FlagTrue(file, "NoDisplay") \/ FlagTrue(file, "Hidden"))
                => FromFile(file) = {}

\* a file with Name, Exec and NoDisplay=TRUE (in capitals) was scanned next to
\* a file that is in the catalog
C4_Witness ==
    /\ op = "scan"
    /\ ~raised
    /\ apps # <<>>
    /\ \E file \in AllFiles(fs) :
           /\ FlagTrue(file, "NoDisplay")
           /\ file.entry["NoDisplay"] # s_true
           /\ Sets(file, "Name") /\ Sets(file, "Exec")
           /\ FromFile(file) = {}

\* C5: every entry of the catalog has a non-empty name and a non-empty
\* command, and a file without Name or without Exec has no entry.
C5_NameAndExecRequired ==
    op = "scan" =>
        /\ \A i \in 1..Len(apps) :
               apps[i].name # EmptyStr /\ apps[i].exec_cmd # EmptyStr
        /\ \A file \in AllFiles(fs) :
               ( \/ get(file.entry, "Name", EmptyStr) = EmptyStr
                 \/ get(file.entry, "Exec", EmptyStr) = EmptyStr )
                   => FromFile(file) = {}

\* a file with a Name and no Exec was scanned next to a file that is in the
\* catalog
C5_Witness ==
    /\ op = "scan"
    /\ apps # <<>>
    /\ \E file \in AllFiles(fs) :
           /\ Parsable(file)
           /\ Sets(file, "Name") /\ ~Sets(file, "Exec")
           /\ FromFile(file) = {}

\* C6: the catalog the Loader returns is in non-decreasing order of the
\* lowercased names.
C6_SortedIgnoringCase ==
    op = "scan" =>
        \A i, j \in 1..Len(apps) :
            i < j => StrLessEq(Lower(apps[i].name), Lower(apps[j].name))

\* a catalog of two entries whose order by lowercased name is not their
\* order by name as written
C6_Witness ==
    /\ op = "scan"
    /\ Len(apps) >= 2
    /\ StrLess(Lower(apps[1].name), Lower(apps[2].name))
    /\ StrLess(apps[2].name, apps[1].name)

\* C7: the scan does not raise; unparsable files and missing directories add
\* nothing and leave the result what it is without them; a scan that finds
\* no launchable file returns the empty catalog.
C7_ScanNeverAborts ==
    op = "scan" =>
        /\ ~raised
        /\ apps = get_desktop_files(WithoutUnparsable(fs)).apps
        /\ \A file \in AllFiles(fs) : Unparsable(file) => FromFile(file) = {}
        /\ (\A file \in AllFiles(fs) : ~YieldsEntry(file)) => apps = <<>>

\* a scan over a missing directory and a file the parser raises on, ahead of
\* a launchable file that is in the catalog
C7_Witness ==
    /\ op = "scan"
    /\ \E d \in Dirs : ~fs[d].exists
    /\ \E bad, good \in AllFiles(fs) :
           /\ DesktopEntry(bad).raised
           /\ bad.path[1] = good.path[1]
           /\ bad.path[2] < good.path[2]
           /\ FromFile(good) # {}

\* C8: with a cache file that is within its hour and cannot be deserialized,
\* get_desktop_files_cached does not raise: it invokes the Loader, returns
\* the Loader's result and writes it to the cache file (which holds it
\* wherever that write does not itself fail).
C8_CorruptCacheIsAMiss ==
    (op = "get" /\ PreFresh /\ Unpickle(pre.content).raised) =>
        /\ ~raised
        /\ scanned
        /\ apps = get_desktop_files(fs).apps
        /\ wfault = "none" =>
               cache_file = [exists |-> TRUE, st_mtime |-> now,
                             content |-> Pickle(get_desktop_files(fs).apps)]

\* a truncated cache file within its hour was replaced by the pickle of a
\* non-empty catalog, which was returned
C8_Witness ==
    /\ op = "get"
    /\ PreFresh
    /\ Unpickle(pre.content).raised
    /\ scanned
    /\ apps # <<>>
    /\ ~Unpickle(cache_file.content).raised
    /\ Unpickle(cache_file.content).apps = apps

\* C9: on a miss whose mkdir, open or dump fails, get_desktop_files_cached
\* does not raise and returns the catalog of the Loader.
C9_WriteFailureNotFatal ==
    (op = "get" /\ scanned /\ wfault # "none") =>
        /\ ~raised
        /\ apps = get_desktop_files(fs).apps

\* a miss whose dump failed midway returned a non-empty catalog and left a
\* cache file that cannot be deserialized
C9_Witness ==
    /\ op = "get"
    /\ scanned
    /\ wfault = "dump"
    /\ apps # <<>>
    /\ cache_file.exists
    /\ Unpickle(cache_file.content).raised

\* C10: clear_cache does not raise; after it there is no cache file; a
\* further call raises nothing and changes nothing; in particular a call
\* that finds no file leaves the state as it found it.
C10_ClearIdempotent ==
    op = "clear" =>
        /\ ~raised
        /\ ~cache_file.exists
        /\ ClearCache(cache_file) = [raised |-> FALSE, file |-> cache_file]
        /\ ~pre.exists => cache_file = pre

\* clear_cache was called with no cache file present
C10_Witness ==
    /\ op = "clear"
    /\ ~pre.exists
    /\ ~raised
    /\ cache_file = pre

\* C11: the first get_desktop_files_cached after a clear_cache (the call of
\* --refresh) invokes the Loader, whatever the cache file was that
\* clear_cache removed.
C11_RescanAfterClear ==
    (op = "get" /\ since_clear.st = "first_get") => (scanned /\ ~pre.exists)

\* clear_cache removed a cache file that was still within its hour and could
\* be deserialized, and the next get_desktop_files_cached, within that hour,
\* scanned
C11_Witness ==
    /\ op = "get"
    /\ since_clear.st = "first_get"
    /\ since_clear.file.exists
    /\ ~Unpickle(since_clear.file.content).raised
    /\ (now - since_clear.file.st_mtime) < CACHE_TTL
    /\ scanned
    /\ ~raised

\* q is a subsequence of t: its characters occur in t in order, not
\* necessarily side by side (every embedding is tried, not the leftmost only)
RECURSIVE IsSubsequence(_, _)
IsSubsequence(q, t) ==
    IF q = <<>> THEN TRUE
    ELSE IF t = <<>> THEN FALSE
    ELSE \/ q[1] = t[1] /\ IsSubsequence(Tail(q), Tail(t))
         \/ IsSubsequence(q, Tail(t))

\* the lowercased q first occurs in the lowercased t at the 0-based index i
FirstOccurrence(q, t, i) ==
    /\ At(Lower(q), Lower(t), i)
    /\ \A j \in 0..(i - 1) : ~At(Lower(q), Lower(t), j)

\* the lowercased q is in the lowercased t as a subsequence and not as a
\* substring
FuzzyOnly(q, t) ==
    /\ ~Contains(Lower(q), Lower(t))
    /\ IsSubsequence(Lower(q), Lower(t))

\* C12: with the empty query fuzzy_match returns (True, 0), whatever the
\* text, the empty text included.
C12_EmptyQueryMatches ==
    (op = "match" /\ query = EmptyStr) => result = [matched |-> TRUE, score |-> 0]

\* fuzzy_match was called with the empty query and the empty text
C12_Witness ==
    /\ op = "match"
    /\ query = EmptyStr
    /\ text = EmptyStr
    /\ result.matched

\* C13: with a non-empty query that is a substring of the text (both
\* lowercased), fuzzy_match returns True and 2000 minus the index of the first
\* occurrence; so on one text a query found at index 0 scores more than a
\* query first found at a higher index.
C13_SubstringScore ==
    (op = "match" /\ query # EmptyStr) =>
        /\ \A i \in 0..Len(text) :
               FirstOccurrence(query, text, i)
                   => result = [matched |-> TRUE, score |-> SUBSTRING_BASE - i]
        /\ FirstOccurrence(query, text, 0) =>
               \A other \in Queries, k \in 1..Len(text) :
                   (other # EmptyStr /\ FirstOccurrence(other, text, k))
                       => result.score > fuzzy_match(other, text).score

\* "ox" was matched against "Firefox", where it is at index 5: 1995
C13_Witness ==
    /\ op = "match"
    /\ query = s_ox
    /\ text = s_Firefox
    /\ result = [matched |-> TRUE, score |-> SUBSTRING_BASE - 5]
    /\ fuzzy_match(s_fi, s_Firefox).score = SUBSTRING_BASE

\* C14, as stated: when the query is a substring of the text, its score is
\* greater than the score of every text under 50 characters in which the
\* query is only a subsequence.
C14_SubstringOutranksFuzzy ==
    (op = "match" /\ query # EmptyStr /\ Contains(Lower(query), Lower(text))) =>
        \A other \in Texts :
            (Len(text) < 50 /\ Len(other) < 50 /\ FuzzyOnly(query, other))
                => result.score > fuzzy_match(query, other).score

\* C15: for a non-empty query, fuzzy_match reports a match exactly when the
\* lowercased query is a subsequence of the lowercased text.
C15_MatchedIffSubsequence ==
    (op = "match" /\ query # EmptyStr) =>
        (result.matched <=> IsSubsequence(Lower(query), Lower(text)))

\* a query of three characters was matched on the fuzzy path, in a text whose
\* first occurrence of the query's first character is not followed by the
\* second
C15_Witness ==
    /\ op = "match"
    /\ Len(query) = 3
    /\ FuzzyOnly(query, text)
    /\ Lower(text)[1] = Lower(query)[1]
    /\ Lower(text)[2] # Lower(query)[2]
    /\ result.matched

\* C16, as stated: when fuzzy_match reports no match, the score it returns
\* is 0.
C16_NoMatchScoresZero ==
    (op = "match" /\ ~result.matched) => result.score = 0

(************************* ranking of the panel ****************************)

\* where the entry e stands in the catalog
Pos(e) == CHOOSE i \in 1..Len(self_apps) : self_apps[i] = e

Names(list) == [i \in 1..Len(list) |-> list[i].name]

\* C17: for a non-empty query the ranking holds exactly the entries of the
\* catalog whose name matches, each once, in descending score, and entries
\* of equal score stand in the order of the catalog
C17_RankedByScoreStable ==
    (op = "input" /\ value # EmptyStr) =>
        /\ {filtered_apps[i] : i \in 1..Len(filtered_apps)} =
               {self_apps[j] : j \in {k \in 1..Len(self_apps) :
                    fuzzy_match(value, self_apps[k].name).matched}}
        /\ \A i, j \in 1..Len(filtered_apps) :
               i < j =>
                   /\ filtered_apps[i] # filtered_apps[j]
                   /\ Score(value, filtered_apps[i]) >=
                          Score(value, filtered_apps[j])
                   /\ Score(value, filtered_apps[i]) =
                          Score(value, filtered_apps[j]) =>
                              Pos(filtered_apps[i]) < Pos(filtered_apps[j])

\* a catalog of three, all matching: two of equal score kept in catalog
\* order behind one of a higher score that stood last in the catalog
C17_Witness ==
    /\ op = "input"
    /\ value # EmptyStr
    /\ Len(self_apps) = 3
    /\ Len(filtered_apps) = 3
    /\ filtered_apps = <<self_apps[3], self_apps[1], self_apps[2]>>
    /\ Score(value, self_apps[1]) = Score(value, self_apps[2])
    /\ Score(value, self_apps[3]) > Score(value, self_apps[1])

Scenario == <<s_Firefox, s_Files, s_Spotify>>

\* the statement as the specification words it: on the catalog Firefox,
\* Files, Spotify the query "fi" lists Firefox, Files, then Spotify
C18_SpotifyListedLast ==
    (op = "input" /\ Names(self_apps) = Scenario /\ value = s_fi) =>
        Names(filtered_apps) = <<s_Firefox, s_Files, s_Spotify>>

\* C18: on the catalog Firefox, Files, Spotify the query "fi" lists Firefox
\* then Files, both substring matches at index 0 in the order of the catalog,
\* and not Spotify, whose "i" has no "f" before it
C18_FirefoxThenFiles ==
    (op = "input" /\ Names(self_apps) = Scenario /\ value = s_fi) =>
        /\ Names(filtered_apps) = <<s_Firefox, s_Files>>
        /\ Score(s_fi, self_apps[1]) = SUBSTRING_BASE
        /\ Score(s_fi, self_apps[2]) = SUBSTRING_BASE
        /\ ~fuzzy_match(s_fi, s_Spotify).matched
        /\ list_view.items = <<s_Firefox, s_Files>>

C18_Witness ==
    /\ op = "input"
    /\ Names(self_apps) = Scenario
    /\ value = s_fi
    /\ Len(filtered_apps) = 2

(****************************** launching **********************************)

\* the field codes of the Desktop Entry specification: the letters after "%"
FieldCodeLetters ==
    {102, 70, 117, 85, 100, 68, 110, 78, 105, 99, 107, 118, 109}

\* str without its field codes, everything else kept
RECURSIVE WithoutFieldCodes(_)
WithoutFieldCodes(str) ==
    IF str = <<>> THEN <<>>
    ELSE IF str[1] = 37 /\ Len(str) >= 2 /\ str[2] \in FieldCodeLetters
         THEN WithoutFieldCodes(SubSeq(str, 3, Len(str)))
         ELSE <<str[1]>> \o WithoutFieldCodes(Tail(str))

\* C19: the command launch() runs is the Exec value with its field codes
\* removed and nothing else, up to the blanks around it
C19_OnlyFieldCodesRemoved ==
    (op = "launch" /\ popen.called) =>
        popen.cmd = Strip(WithoutFieldCodes(target.exec_cmd))

\* C20: launch() never raises, whether Popen fails or not, and on an entry
\* with an empty command it calls Popen not at all
C20_LaunchNeverRaises ==
    op = "launch" =>
        /\ ~raised
        /\ target.exec_cmd = EmptyStr => ~popen.called

\* Popen was called, it raised, and launch() returned
C20_Witness ==
    /\ op = "launch"
    /\ target.exec_cmd # EmptyStr
    /\ popen.called
    /\ popen.failed
    /\ ~raised

(************************** the cache, again *******************************)

\* the call just completed is a hit: it returned what it loaded
Hit == op = "get" /\ ~scanned /\ ~raised

C27_HitIsReadOnly ==
    Hit =>
        /\ cache_file = pre
        /\ cache_file.content = Pickle(dumped.apps)
        /\ cache_file.st_mtime = dumped.at
        /\ apps = dumped.apps
        /\ now - dumped.at < CACHE_TTL

\* a hit in the last second of the file's life, when a scan would have
\* found something else than the file holds
C27_Witness ==
    /\ Hit
    /\ now - dumped.at = CACHE_TTL - 1
    /\ apps # get_desktop_files(fs).apps

(************************** fuzzy_match, again *****************************)

\* s written all in capitals, and all in small letters, letter by letter
\* (the final sigma is a small sigma)
Capitals(s) ==
    [i \in 1..Len(s) |->
        IF s[i] = 962 THEN 931
        ELSE IF Cased(s[i]) /\ ~Capital(s[i]) THEN s[i] - 32 ELSE s[i]]

Smalls(s) == [i \in 1..Len(s) |-> LowerChar(s[i])]

\* C22: fuzzy_match returns the same pair for the query and the text as
\* written, written all in capitals, and written all in small letters
C22_CaseInsensitive ==
    op = "match" =>
        /\ result = fuzzy_match(Capitals(query), Capitals(text))
        /\ result = fuzzy_match(Smalls(query), Smalls(text))

\* where the characters of q are consumed in t: each at the first place,
\* from i on, that holds the k-th character of q
RECURSIVE Consumed(_, _, _, _)
Consumed(q, t, k, i) ==
    IF k > Len(q) \/ i > Len(t) THEN <<>>
    ELSE IF t[i] = q[k] THEN <<i>> \o Consumed(q, t, k + 1, i + 1)
    ELSE Consumed(q, t, k, i + 1)

\* the length of the run of adjacent places that ends at the k-th of p
RunAt(p, k) ==
    LET first == CHOOSE j \in 1..k :
                     /\ \A m \in j..k : p[m] = p[j] + (m - j)
                     /\ \A h \in 1..(j - 1) :
                            \E m \in h..k : p[m] # p[h] + (m - h)
    IN  k - first + 1

RECURSIVE SumOfRuns(_, _)
SumOfRuns(p, k) ==
    IF k = 0 THEN 0
    ELSE SumOfRuns(p, k - 1) + CHAR_SCORE + RUN_BONUS * RunAt(p, k)

\* C23: when the query is not a substring of the text, the score is the sum,
\* over the query characters consumed, of 10 + 5 * the length of the run of
\* adjacent text characters the consumed one ends
C23_FuzzyScore ==
    (op = "match" /\ query # EmptyStr /\ ~Contains(Lower(query), Lower(text))) =>
        LET p == Consumed(Lower(query), Lower(text), 1, 1)
        IN  result.score = SumOfRuns(p, Len(p))

\* a fuzzy match with a run of two, then a gap that starts the run over
C23_Witness ==
    /\ op = "match"
    /\ FuzzyOnly(query, text)
    /\ result.matched
    /\ LET p == Consumed(Lower(query), Lower(text), 1, 1)
       IN  /\ Len(p) = 3
           /\ RunAt(p, 2) = 2
           /\ RunAt(p, 3) = 1
    /\ result.score = 50

(*************************** the panel, again ******************************)

\* the place in list of the first entry of the highest score
Best(v, list) ==
    CHOOSE i \in 1..Len(list) :
        /\ \A j \in 1..Len(list) : Score(v, list[i]) >= Score(v, list[j])
        /\ \A j \in 1..(i - 1) : Score(v, list[j]) < Score(v, list[i])

\* list, the first entry of the highest score taken out again and again
RECURSIVE BestFirst(_, _)
BestFirst(v, list) ==
    IF list = <<>> THEN <<>>
    ELSE LET i == Best(v, list)
         IN  <<list[i]>> \o
                 BestFirst(v, SubSeq(list, 1, i - 1) \o
                              SubSeq(list, i + 1, Len(list)))

IsMatch(v, app) == fuzzy_match(v, app.name).matched

\* the ranking of the whole catalog for the query v, all else unknown
RankedAlone(v, catalog) ==
    BestFirst(v, SelectSeq(catalog, LAMBDA app : IsMatch(v, app)))

\* C24: no step changes the catalog; every on_input_changed leaves in
\* filtered_apps the ranking of the whole catalog for its own value, whatever
\* the calls before it, and every reset the whole catalog
C24_NoIncrementalState ==
    [][/\ self_apps' = self_apps
       /\ op' = "input" => filtered_apps' = RankedAlone(value', self_apps)
       /\ op' = "reset" => filtered_apps' = self_apps]_vars

\* a query has left two of the three entries, the last of the catalog first
C24_Witness ==
    /\ op = "input"
    /\ Len(self_apps) = 3
    /\ Len(filtered_apps) = 2
    /\ filtered_apps[1] = self_apps[3]
    /\ filtered_apps = RankedAlone(value, self_apps)

\* C25: on_input_changed("") and reset() leave in filtered_apps every entry
\* of the catalog, in the order of the catalog
C25_EmptyQueryResets ==
    ((op = "input" /\ value = EmptyStr) \/ op = "reset") =>
        filtered_apps = self_apps

\* the empty value has been typed over a catalog of three, which the list
\* shows whole
C25_Witness ==
    /\ op = "input"
    /\ value = EmptyStr
    /\ Len(self_apps) = 3
    /\ Len(filtered_apps) = 3
    /\ list_view.count = 3

(****************************** the screen *********************************)

\* C26: launch_selected_app returns True exactly when it launched the app,
\* the process started; called on no row of the list, it launches nothing
\* and returns False
C26_TrueIffLaunched ==
    op = "select" =>
        /\ selection.returned <=> (popen.called /\ ~popen.failed)
        /\ (selection.index < 0 \/ selection.index >= Len(filtered_apps)) =>
               (~popen.called /\ ~selection.returned)

\* the first filtered_apps[:100], by name
Displayed(filtered) ==
    [i \in 1..(IF Len(filtered) < DISPLAY_CAP THEN Len(filtered)
                ELSE DISPLAY_CAP) |-> filtered[i].name]

\* C29: whenever the Apps panel is shown the list view holds the names of
\* the first min(100, len) entries of filtered_apps, in order; and a launch
\* from a row of the list has launched the entry the row showed
C29_ListShowsFiltered ==
    /\ list_view.mounted <=> middle_panels[current_middle_panel_index + 1] = "Apps"
    /\ list_view.mounted =>
           /\ list_view.items = Displayed(filtered_apps)
           /\ list_view.count = Len(filtered_apps)
    /\ (op = "select" /\ selection.shown) =>
           /\ selection.returned
           /\ popen.called
           /\ target.name = selection.label
           /\ \E i \in 1..Len(self_apps) : self_apps[i] = target

\* the last row of a full list view was selected, over a catalog of more
\* entries than the list shows
C29_Witness ==
    /\ op = "select"
    /\ selection.shown
    /\ selection.index = DISPLAY_CAP - 1
    /\ Len(filtered_apps) > DISPLAY_CAP
    /\ Len(list_view.items) = DISPLAY_CAP
    /\ target = self_apps[DISPLAY_CAP]

(************************** two processes **********************************)

\* C28: whatever the interleaving of the two processes on the cache file,
\* no call raises, and every list get_desktop_files_cached returns is the
\* whole output of a scan one of the processes made
C28_RaceFree ==
    \A p \in Procs :
        procs[p].pc = "done" =>
            /\ ~procs[p].raised
            /\ procs[p].op = "get" => procs[p].ret \in scans

(************************** the weather panel ******************************)

\* the callers of update_weather that are in it, and those fetching
Running == {c \in Callers : weather.calls[c].pc # "idle"}

Fetching == {c \in Callers : weather.calls[c].pc = "fetching"}

\* C30: at most one weather fetch is in progress at a time, and is_fetching
\* is False whenever no call of update_weather is running, however the last
\* one ended, so that a call made with an expired cache is not turned away
C30_FetchGuard ==
    /\ Cardinality(Fetching) <= 1
    /\ Running = {} => ~weather.is_fetching

====
